---- MODULE Spec2Model ----
(***************************************************************************)
(* A model of the persistence transaction of persistent-cookiejar:         *)
(* internal.LockFile (the cross-process file lock), Jar.save, Jar.load,    *)
(* Jar.MarshalJSON and the serialisation helpers of serialize.go.          *)
(*                                                                         *)
(* Threads t1 and t2 share the jar j1 (one process), thread t3 owns the    *)
(* jar j2 (another process); all jars use the same cookie file.  An        *)
(* external process may hold the lock artifact for as long as it likes.    *)
(***************************************************************************)
EXTENDS Integers, Sequences, FiniteSets, TLC

VARIABLES
    separateArtifact,   \* TRUE: init() of the ".lock" variant installed newCloser/lockFileName
    removeOpenAllowed,  \* the filesystem removes a file that another handle holds open
    dirExists,          \* the parent directory of the cookie file exists
    key,                \* j.encryptedKey of each jar
    clock,              \* the wall clock read by time.Now()
    file,               \* the cookie file: [exists, data], data a sequence of JSON tokens
    lockIno,            \* inode linked at path + ".lock" (0: no artifact); separate variant only
    handle,             \* handle[t]: inode of the thread's open lock handle (0: none)
    held,               \* held[t]: the thread's handle holds the exclusive lock
    ext,                \* inode on which the external process holds the lock (0: none)
    mu,                 \* mu[j]: the thread holding j.mu, or NoThread
    store,              \* store[j]: j.entries, a set of entries with distinct ids
    pc,                 \* pc[t]: where the thread is in its call
    op,                 \* op[t]: the call the thread is in or has last returned from
    now,                \* now[t]: the time passed to save
    tries,              \* tries[t]: retry intervals spent inside TryLockContext
    rd,                 \* rd[t]: the entries mergeFrom decoded from the file in this call
    err,                \* err[t]: the error the call returns ("ok" is nil)
    faults,             \* I/O faults injected so far
    ops,                \* calls started so far
    budget,             \* calls the behaviour may start
    hist,               \* history: what the last rewrite of the file was
    out,                \* out[t]: the data the thread's MarshalJSON returned
    closed,             \* closed[t]: what the thread's last Close of its closer returned
    codec               \* the call of encrypt or decrypt in progress, and its result

vars == <<separateArtifact, removeOpenAllowed, dirExists, key, clock, file, lockIno,
          handle, held, ext, mu, store, pc, op, now, tries, rd, err, faults, ops, budget,
          hist, out, closed, codec>>

----------------------------------------------------------------------------
(* Bounds of the model. *)

\* retry intervals of TryLockContext that fit in the total deadline
MaxTries == 1
\* calls started in one behaviour
MaxOps == 2
\* I/O faults injected in one behaviour
MaxFaults == 1

Threads == {"t1", "t2", "t3"}
Jars == {"j1", "j2"}
NoThread == "none"
\* the times the clock shows: before and at the expiry of the entry E3
Times == {0, 1}
JarOf(t) == IF t = "t3" THEN "j2" ELSE "j1"

----------------------------------------------------------------------------
(* Entries and the keys of the jars. *)

NoKey == ""
\* 16-, 24- and 32-byte keys (the AES key sizes), a second 16-byte key, and a
\* 5-byte key (not an AES key size)
GoodKey == "k16"
OtherKey == "k16b"
Key24 == "k24"
Key32 == "k32"
BadKey == "k5"
KeyLen(k) ==
    CASE k \in {GoodKey, OtherKey} -> 16 [] k = Key24 -> 24 [] k = Key32 -> 32
      [] k = BadKey -> 5 [] OTHER -> 0
\* the bytes of the key, as far as the cipher below uses them
KeySeed(k) ==
    CASE k = GoodKey -> 11 [] k = OtherKey -> 29 [] k = Key24 -> 53 [] k = Key32 -> 97
      [] OTHER -> 0

NoText == <<>>

Entry(id, persistent, expires, updated, value) ==
    [id |-> id, Persistent |-> persistent, Expires |-> expires,
     Updated |-> updated, Value |-> value, EncryptedValue |-> NoText]

\* E1: persistent, expires after every time of the model; E1n: a newer version of
\* E1; E1s: a newer session version of E1; E2: a session cookie; E3: persistent,
\* expires at time 1; E4: persistent, another identity.
E1 == Entry("a", TRUE, 9, 1, "x")
E1n == Entry("a", TRUE, 9, 2, "y")
E1s == Entry("a", FALSE, 9, 2, "y")
E2 == Entry("b", FALSE, 9, 1, "x")
E3 == Entry("c", TRUE, 1, 1, "x")
E4 == Entry("d", TRUE, 9, 1, "x")

Ids(S) == {e.id : e \in S}
SeqToSet(s) == {s[i] : i \in 1..Len(s)}

\* []byte(e.Value) for the values of the entries
Bytes(v) == CASE v = "x" -> <<120>> [] v = "y" -> <<121>> [] OTHER -> <<>>

\* AES-GCM of crypto/cipher: a 12-byte nonce, a 16-byte tag
NonceSize == 12
TagSize == 16

RECURSIVE SumBytes(_)
SumBytes(bs) == IF bs = <<>> THEN 0 ELSE (Len(bs) * Head(bs) + SumBytes(Tail(bs))) % 256

\* the key stream and the tag of the cipher, as byte functions of the key, the
\* nonce and the position
KeyStream(k, nonce, n) ==
    LET h == KeySeed(k) + SumBytes(nonce) IN [i \in 1..n |-> (h + 31 * i) % 256]
Tag(k, nonce, ct) ==
    LET h == 3 * KeySeed(k) + SumBytes(nonce) + Len(ct)
        at(bs, j) == IF j <= Len(bs) THEN bs[j] ELSE 0
    IN [j \in 1..TagSize |-> (h + 17 * j + 3 * at(nonce, j) + 7 * at(ct, j)) % 256]

\* mode.Seal(nil, nonce, plaintext, nil): the ciphertext followed by its tag
Seal(k, nonce, plaintext) ==
    LET ks == KeyStream(k, nonce, Len(plaintext))
        ct == [i \in 1..Len(plaintext) |-> (plaintext[i] + ks[i]) % 256]
    IN ct \o Tag(k, nonce, ct)

\* mode.Open(nil, nonce, ciphertext, nil): an input shorter than the tag, or
\* with another tag than the one of its ciphertext, fails the authentication
Open(k, nonce, data) ==
    IF Len(data) < TagSize THEN [ok |-> FALSE, plaintext |-> <<>>]
    ELSE LET n == Len(data) - TagSize
             ct == SubSeq(data, 1, n)
             ks == KeyStream(k, nonce, n)
         IN IF SubSeq(data, n + 1, Len(data)) # Tag(k, nonce, ct)
            THEN [ok |-> FALSE, plaintext |-> <<>>]
            ELSE [ok |-> TRUE,
                  plaintext |-> [i \in 1..n |-> (ct[i] + 256 - ks[i]) % 256]]

\* characters of a text: 0..63 are the base64 alphabet (A-Z a-z 0-9 + /), Pad
\* is '=', NotB64 any character outside the alphabet
Pad == 64
NotB64 == 65
\* "v01": 'v' is 47, '0' is 52 and '1' is 53 in the alphabet
V01 == <<47, 52, 53>>

\* base64.StdEncoding of a byte sequence
RECURSIVE B64Encode(_)
B64Encode(bs) ==
    IF Len(bs) = 0 THEN <<>>
    ELSE IF Len(bs) = 1
    THEN <<bs[1] \div 4, (bs[1] % 4) * 16, Pad, Pad>>
    ELSE IF Len(bs) = 2
    THEN <<bs[1] \div 4, (bs[1] % 4) * 16 + bs[2] \div 16, (bs[2] % 16) * 4, Pad>>
    ELSE <<bs[1] \div 4, (bs[1] % 4) * 16 + bs[2] \div 16,
           (bs[2] % 16) * 4 + bs[3] \div 64, bs[3] % 64>> \o B64Encode(SubSeq(bs, 4, Len(bs)))

\* base64.StdEncoding.Decode: quanta of four characters, padding in the last
\* one only; anything else is a CorruptInputError
RECURSIVE B64Decode(_)
B64Decode(cs) ==
    IF Len(cs) = 0 THEN [ok |-> TRUE, bytes |-> <<>>]
    ELSE IF Len(cs) < 4 THEN [ok |-> FALSE, bytes |-> <<>>]
    ELSE LET c1 == cs[1]  c2 == cs[2]  c3 == cs[3]  c4 == cs[4]
             rest == SubSeq(cs, 5, Len(cs))
         IN IF c1 > 63 \/ c2 > 63 THEN [ok |-> FALSE, bytes |-> <<>>]
            ELSE IF c3 = Pad
            THEN IF c4 = Pad /\ rest = <<>>
                 THEN [ok |-> TRUE, bytes |-> <<c1 * 4 + c2 \div 16>>]
                 ELSE [ok |-> FALSE, bytes |-> <<>>]
            ELSE IF c3 > 63 THEN [ok |-> FALSE, bytes |-> <<>>]
            ELSE IF c4 = Pad
            THEN IF rest = <<>>
                 THEN [ok |-> TRUE,
                       bytes |-> <<c1 * 4 + c2 \div 16, (c2 % 16) * 16 + c3 \div 4>>]
                 ELSE [ok |-> FALSE, bytes |-> <<>>]
            ELSE IF c4 > 63 THEN [ok |-> FALSE, bytes |-> <<>>]
            ELSE LET r == B64Decode(rest)
                 IN IF ~r.ok THEN r
                    ELSE [ok |-> TRUE,
                          bytes |-> <<c1 * 4 + c2 \div 16, (c2 % 16) * 16 + c3 \div 4,
                                      (c3 % 4) * 64 + c4>> \o r.bytes]

\* (mutant) the text holds the sealed plaintext without the nonce in front
encryptNoNonce(plaintext, k, nonce) ==
    IF KeyLen(k) \notin {16, 24, 32}
    THEN [ok |-> FALSE, text |-> NoText]
    ELSE [ok |-> TRUE, text |-> V01 \o B64Encode(Seal(k, nonce, plaintext))]

\* encrypt, with the nonce that rand.Reader delivers: a key that is not an AES
\* key size is an error; the text is "v01" and the base64 of the nonce followed
\* by the sealed plaintext.
encrypt(plaintext, k, nonce) ==
    IF KeyLen(k) \notin {16, 24, 32}
    THEN [ok |-> FALSE, text |-> NoText]
    ELSE [ok |-> TRUE, text |-> V01 \o B64Encode(nonce \o Seal(k, nonce, plaintext))]

\* decrypt: st is "ok" with the plaintext, "error" for a returned error, or
\* "panic" when a slice expression is out of range (encryptedData[:n] has
\* fewer than NonceSize bytes, so encryptedData[mode.NonceSize():] aborts)
decrypt(encryptedText, k) ==
    IF Len(encryptedText) < 3 \/ SubSeq(encryptedText, 1, 3) # V01
    THEN [st |-> "error", plaintext |-> <<>>]
    ELSE LET d == B64Decode(SubSeq(encryptedText, 4, Len(encryptedText)))
         IN IF ~d.ok THEN [st |-> "error", plaintext |-> <<>>]
            ELSE IF KeyLen(k) \notin {16, 24, 32} THEN [st |-> "error", plaintext |-> <<>>]
            ELSE IF Len(d.bytes) < NonceSize THEN [st |-> "panic", plaintext |-> <<>>]
            ELSE LET o == Open(k, SubSeq(d.bytes, 1, NonceSize),
                               SubSeq(d.bytes, NonceSize + 1, Len(d.bytes)))
                 IN IF o.ok THEN [st |-> "ok", plaintext |-> o.plaintext]
                    ELSE [st |-> "error", plaintext |-> <<>>]

\* the nonces rand.Reader delivers
Nonces == {[i \in 1..NonceSize |-> 0], [i \in 1..NonceSize |-> (20 * i) % 256]}

\* the order of byCanonicalHost, one rank per identity
IdRank(i) == CASE i = "a" -> 1 [] i = "b" -> 2 [] i = "c" -> 3 [] OTHER -> 4

RECURSIVE SortEntries(_)
SortEntries(S) ==
    IF S = {} THEN <<>>
    ELSE LET m == CHOOSE e \in S : \A f \in S : IdRank(e.id) <= IdRank(f.id)
         IN <<m>> \o SortEntries(S \ {m})

\* (mutant) the encrypted value is set and the value is left in the entry
SealedKeepValue(e, k, nonce) ==
    IF KeyLen(k) > 0
    THEN [e EXCEPT !.EncryptedValue = encrypt(Bytes(e.Value), k, nonce).text]
    ELSE e

\* the entry as allPersistentEntries appends it: under a key, the value
\* encrypted with the nonce drawn for it and the value cleared
Sealed(e, k, nonce) ==
    IF KeyLen(k) > 0
    THEN [e EXCEPT !.EncryptedValue = encrypt(Bytes(e.Value), k, nonce).text, !.Value = ""]
    ELSE e

\* the nonces rand.Reader can deliver to one call of allPersistentEntries, one
\* for each entry it encrypts
Draws(S, k) ==
    IF KeyLen(k) \in {16, 24, 32}
    THEN [Ids({e \in S : e.Persistent}) -> Nonces]
    ELSE {[i \in Ids(S) |-> CHOOSE n \in Nonces : TRUE]}

\* (mutant) every entry is returned, persistent or not
allEntries(S, k, r) ==
    LET nonce(e) == IF e.id \in DOMAIN r THEN r[e.id] ELSE CHOOSE n \in Nonces : TRUE
    IN IF KeyLen(k) > 0 /\ \E e \in S : ~encrypt(Bytes(e.Value), k, nonce(e)).ok
       THEN [ok |-> FALSE, entries |-> <<>>]
       ELSE [ok |-> TRUE, entries |-> SortEntries({Sealed(e, k, nonce(e)) : e \in S})]

\* allPersistentEntries: the persistent entries, each encrypted when a key is
\* configured, sorted; an encryption error gives no entries. r[id] is the
\* nonce drawn for the entry id.
allPersistentEntries(S, k, r) ==
    LET P == {e \in S : e.Persistent}
    IN IF KeyLen(k) > 0 /\ \E e \in P : ~encrypt(Bytes(e.Value), k, r[e.id]).ok
       THEN [ok |-> FALSE, entries |-> <<>>]
       ELSE [ok |-> TRUE, entries |-> SortEntries({Sealed(e, k, r[e.id]) : e \in P})]

----------------------------------------------------------------------------
(* The JSON text of the file, as a sequence of tokens. *)

Tok(k) == [k |-> k]
Obj(e) == [k |-> "obj", e |-> e]

RECURSIVE Elements(_)
Elements(es) ==
    IF Len(es) = 0 THEN <<>>
    ELSE IF Len(es) = 1 THEN <<Obj(es[1])>>
    ELSE <<Obj(es[1]), Tok("comma")>> \o Elements(Tail(es))

\* json.Marshal of []entry: a nil slice is written as null
Marshal(es) ==
    IF Len(es) = 0 THEN <<Tok("null")>>
    ELSE <<Tok("lb")>> \o Elements(es) \o <<Tok("rb")>>

\* json.Encoder.Encode of []entry: the value and a line end
Encode(es) == Marshal(es) \o <<Tok("nl")>>

RECURSIVE SkipSpace(_)
SkipSpace(s) ==
    IF s # <<>> /\ Head(s).k = "nl" THEN SkipSpace(Tail(s)) ELSE s

RECURSIVE ArrayBody(_, _, _)
ArrayBody(s, acc, afterElem) ==
    IF s = <<>> THEN [st |-> "syntax", val |-> <<>>]
    ELSE LET h == Head(s) IN
         IF afterElem
         THEN IF h.k = "rb" THEN [st |-> "array", val |-> acc]
              ELSE IF h.k = "comma" THEN ArrayBody(Tail(s), acc, FALSE)
              ELSE [st |-> "syntax", val |-> <<>>]
         ELSE IF h.k \in {"obj", "num"} THEN ArrayBody(Tail(s), Append(acc, h), TRUE)
              ELSE IF h.k = "rb" /\ acc = <<>> THEN [st |-> "array", val |-> acc]
              ELSE [st |-> "syntax", val |-> <<>>]

\* decoder.Decode(&data): the first JSON value of the stream
Decode(data) ==
    LET s == SkipSpace(data) IN
    IF s = <<>> THEN [st |-> "eof", val |-> <<>>]
    ELSE IF Head(s).k = "null" THEN [st |-> "null", val |-> <<>>]
    ELSE IF Head(s).k \in {"num", "obj"} THEN [st |-> "scalar", val |-> <<>>]
    ELSE IF Head(s).k = "lb" THEN ArrayBody(Tail(s), <<>>, FALSE)
    ELSE [st |-> "syntax", val |-> <<>>]

\* json.Unmarshal(data, &entries)
Unmarshal(v) ==
    IF v.st = "null" THEN [ok |-> TRUE, entries |-> <<>>]
    ELSE IF v.st = "array" /\ \A i \in 1..Len(v.val) : v.val[i].k = "obj"
    THEN [ok |-> TRUE, entries |-> [i \in 1..Len(v.val) |-> v.val[i].e]]
    ELSE [ok |-> FALSE, entries |-> <<>>]

\* Jar.merge: an entry of the file replaces the entry of the same identity
\* when it was updated later
RECURSIVE merge(_, _)
merge(S, es) ==
    IF es = <<>> THEN S
    ELSE LET e == Head(es)
             old == {f \in S : f.id = e.id}
         IN merge(IF old = {} \/ \A f \in old : e.Updated > f.Updated
                  THEN (S \ old) \cup {e} ELSE S,
                  Tail(es))

\* Jar.deleteExpired
deleteExpired(S, t) == {e \in S : e.Expires > t}

\* what a call has decoded from the file: nothing yet, an empty stream, a syntax
\* error, a value discarded as not []entry, or the entries passed to merge
Read(st, es) == [st |-> st, entries |-> es]
NotRead == Read("none", <<>>)

\* (mutant) mergeFrom takes content that is not JSON for an empty file
mergeFromLenient(S, data) ==
    LET v == Decode(data) IN
    IF v.st \in {"eof", "syntax"} THEN [err |-> "ok", store |-> S, rd |-> Read(v.st, <<>>)]
    ELSE LET u == Unmarshal(v) IN
         IF ~u.ok THEN [err |-> "ok", store |-> S, rd |-> Read("discarded", <<>>)]
         ELSE [err |-> "ok", store |-> merge(S, u.entries), rd |-> Read("merged", u.entries)]

\* Jar.mergeFrom: the store after it, the error it returns, the entries it decoded
mergeFrom(S, data) ==
    LET v == Decode(data) IN
    IF v.st = "eof" THEN [err |-> "ok", store |-> S, rd |-> Read("eof", <<>>)]
    ELSE IF v.st = "syntax" THEN [err |-> "decode", store |-> S, rd |-> Read("syntax", <<>>)]
    ELSE LET u == Unmarshal(v) IN
         IF ~u.ok THEN [err |-> "ok", store |-> S, rd |-> Read("discarded", <<>>)]
         ELSE [err |-> "ok", store |-> merge(S, u.entries), rd |-> Read("merged", u.entries)]

\* the entries a reader decodes from the file
FileEntries(data) == SeqToSet(Unmarshal(Decode(data)).entries)


----------------------------------------------------------------------------
(* The lock artifact. *)

\* inode numbers of lock artifacts; one handle per thread, the external
\* process's and the directory entry can each name a different one
Inodes == 1..(Cardinality(Threads) + 2)

\* the inode at lockFileName(path): the cookie file itself (inode 1) or path + ".lock"
ArtifactIno ==
    IF separateArtifact THEN lockIno
    ELSE IF file.exists THEN 1 ELSE 0

FreshIno ==
    IF ~separateArtifact THEN 1
    ELSE CHOOSE i \in Inodes :
            /\ i # lockIno /\ i # ext /\ \A u \in Threads : handle[u] # i
            /\ \A k \in Inodes :
                  (k # lockIno /\ k # ext /\ \A u \in Threads : handle[u] # k) => i <= k

\* (mutant) the lock attempt never finds the lock taken
LockBusyNever(t, i) == FALSE

\* (mutant) the lock excludes only the threads of the caller's own process
LockBusyInProcess(t, i) ==
    \E u \in Threads \ {t} : JarOf(u) = JarOf(t) /\ held[u] /\ handle[u] = i

\* another handle holds the exclusive lock on inode i
LockBusy(t, i) == ext = i \/ \E u \in Threads \ {t} : held[u] /\ handle[u] = i

\* some handle other than t's is open on inode i
OpenElsewhere(t, i) == ext = i \/ \E u \in Threads \ {t} : handle[u] = i

\* the call of t returns e: its locals are gone
Return(t, e) ==
    /\ pc' = [pc EXCEPT ![t] = "idle"]
    /\ op' = [op EXCEPT ![t] = "none"]
    /\ err' = [err EXCEPT ![t] = e]
    /\ now' = [now EXCEPT ![t] = 0]
    /\ tries' = [tries EXCEPT ![t] = 0]
    /\ rd' = [rd EXCEPT ![t] = NotRead]

Goto(t, p) == pc' = [pc EXCEPT ![t] = p]

config == <<separateArtifact, removeOpenAllowed, dirExists, key, budget>>

\* (mutant) the error of TryLockContext is returned as it is
LockErrorUnmapped(deadline) == "ioerr"

\* LockFile: the error it returns for the error of TryLockContext, the timeout
\* error when that one is context.DeadlineExceeded
LockError(deadline) == IF deadline THEN "timeout" ELSE "ioerr"

\* LockFile: one attempt of TryLockContext.  The first attempt opens (and
\* creates) the artifact; a failed attempt waits one retry interval, until the
\* deadline.
TryLock(t) ==
    /\ pc[t] = "lock"
    /\ IF handle[t] = 0 /\ ~dirExists
       THEN /\ Return(t, LockError(FALSE))
            /\ UNCHANGED <<file, lockIno, handle, held>>
       ELSE LET i == IF handle[t] # 0 THEN handle[t]
                     ELSE IF ArtifactIno # 0 THEN ArtifactIno ELSE FreshIno
            IN /\ IF handle[t] = 0 /\ ArtifactIno = 0
                  THEN IF separateArtifact
                       THEN lockIno' = i /\ file' = file
                       ELSE lockIno' = lockIno /\ file' = [exists |-> TRUE, data |-> <<>>]
                  ELSE UNCHANGED <<file, lockIno>>
               /\ IF ~LockBusy(t, i)
                  THEN /\ held' = [held EXCEPT ![t] = TRUE]
                       /\ handle' = [handle EXCEPT ![t] = i]
                       /\ tries' = [tries EXCEPT ![t] = 0]
                       /\ Goto(t, "open")
                       /\ UNCHANGED <<op, err, now, rd>>
                  ELSE IF tries[t] < MaxTries
                  THEN /\ handle' = [handle EXCEPT ![t] = i]
                       /\ tries' = [tries EXCEPT ![t] = tries[t] + 1]
                       /\ UNCHANGED <<held, pc, op, err, now, rd>>
                  ELSE /\ handle' = [handle EXCEPT ![t] = 0]
                       /\ Return(t, LockError(TRUE))
                       /\ UNCHANGED held
    /\ UNCHANGED <<config, codec, out, closed, clock, ext, mu, store, faults, ops, hist>>

\* (mutant) the call returns after a failure without closing the closer
ReleaseOnSuccessOnly(t) ==
    /\ pc[t] = "release"
    /\ held' = [held EXCEPT ![t] = (err[t] # "ok")]
    /\ handle' = [handle EXCEPT ![t] = IF err[t] = "ok" THEN 0 ELSE handle[t]]
    /\ closed' = [closed EXCEPT ![t] = IF err[t] = "ok" THEN "ok" ELSE closed[t]]
    /\ IF separateArtifact /\ err[t] = "ok"
       THEN Goto(t, "remove") /\ UNCHANGED <<op, err, now, tries, rd>>
       ELSE Return(t, err[t])
    /\ UNCHANGED <<config, codec, out, clock, file, lockIno, ext, mu, store, faults, ops,
                   hist>>

\* locked.Close(): the handle is closed, which releases the lock; the closer of
\* the ".lock" variant keeps the result and goes on to the removal
Release(t) ==
    /\ pc[t] = "release"
    /\ held' = [held EXCEPT ![t] = FALSE]
    /\ handle' = [handle EXCEPT ![t] = 0]
    /\ closed' = [closed EXCEPT ![t] = "ok"]
    /\ IF separateArtifact
       THEN Goto(t, "remove") /\ UNCHANGED <<op, err, now, tries, rd>>
       ELSE Return(t, err[t])
    /\ UNCHANGED <<config, codec, out, clock, file, lockIno, ext, mu, store, faults, ops,
                   hist>>

\* os.Remove(path) by thread t: it fails where the filesystem refuses to remove
\* a file that another handle holds open, and where there is no file
RemoveFails(t) == lockIno = 0 \/ (~removeOpenAllowed /\ OpenElsewhere(t, lockIno))

\* (mutant) Close returns the error of the removal
RemoveReturnsError(t) ==
    /\ pc[t] = "remove"
    /\ lockIno' = IF RemoveFails(t) THEN lockIno ELSE 0
    /\ closed' = [closed EXCEPT ![t] = IF RemoveFails(t) THEN "rmerr" ELSE closed[t]]
    /\ Return(t, err[t])
    /\ UNCHANGED <<config, codec, out, clock, file, handle, held, ext, mu, store, faults,
                   ops, hist>>

\* (mutant) the removal is refused while another handle holds the artifact
\* open, whatever the filesystem
RemoveRefusedWhenOpen(t) ==
    /\ pc[t] = "remove"
    /\ lockIno' = IF lockIno = 0 \/ OpenElsewhere(t, lockIno) THEN lockIno ELSE 0
    /\ Return(t, err[t])
    /\ UNCHANGED <<config, codec, out, closed, clock, file, handle, held, ext, mu, store,
                   faults, ops, hist>>

\* flockCloserWin.Close, after the handle is closed: os.Remove of the artifact,
\* its error ignored; Close returns what closing the handle returned
Remove(t) ==
    /\ pc[t] = "remove"
    /\ lockIno' = IF RemoveFails(t) THEN lockIno ELSE 0
    /\ Return(t, err[t])
    /\ UNCHANGED <<config, codec, out, closed, clock, file, handle, held, ext, mu, store,
                   faults, ops, hist>>

\* an external process takes the lock on the artifact, and gives it back
ExtAcquire ==
    /\ ext = 0 /\ dirExists /\ ops < budget
    /\ ops' = ops + 1
    /\ LET i == IF ArtifactIno # 0 THEN ArtifactIno ELSE FreshIno
       IN /\ \A u \in Threads : ~(held[u] /\ handle[u] = i)
          /\ ext' = i
          /\ IF ArtifactIno = 0
             THEN IF separateArtifact
                  THEN lockIno' = i /\ file' = file
                  ELSE lockIno' = lockIno /\ file' = [exists |-> TRUE, data |-> <<>>]
             ELSE UNCHANGED <<file, lockIno>>
    /\ UNCHANGED <<config, codec, out, closed, clock, handle, held, mu, store, pc, op, now, tries, rd, err,
                   faults, hist>>

ExtRelease ==
    /\ ext # 0
    /\ ext' = 0
    /\ UNCHANGED <<config, codec, out, closed, clock, file, lockIno, handle, held, mu, store, pc, op, now,
                   tries, rd, err, faults, ops, hist>>

----------------------------------------------------------------------------
(* Save, load and MarshalJSON. *)

Fault == faults < MaxFaults /\ faults' = faults + 1
NoFault == faults' = faults

\* Jar.Save: reads the clock, which has not gone back since it was last read,
\* and enters save
Save(t) ==
    /\ pc[t] = "idle" /\ ops < budget
    /\ ops' = ops + 1
    /\ op' = [op EXCEPT ![t] = "save"]
    /\ \E n \in {m \in Times : m >= clock} :
          /\ clock' = n
          /\ now' = [now EXCEPT ![t] = n]
    /\ err' = [err EXCEPT ![t] = "none"]
    /\ Goto(t, "lock")
    /\ UNCHANGED <<config, codec, out, closed, file, lockIno, handle, held, ext, mu, store, tries, rd,
                   faults, hist>>

\* (mutant) load goes to LockFile whether the parent directory exists or not
LoadAlwaysLocks(t) ==
    /\ pc[t] = "idle" /\ ops < budget
    /\ ops' = ops + 1
    /\ op' = [op EXCEPT ![t] = "load"]
    /\ err' = [err EXCEPT ![t] = "none"]
    /\ Goto(t, "lock")
    /\ UNCHANGED <<config, codec, out, closed, clock, file, lockIno, handle, held, ext, mu, store,
                   faults, hist, now, tries, rd>>

\* Jar.load, up to LockFile: without the parent directory it returns nil at once
Load(t) ==
    /\ pc[t] = "idle" /\ ops < budget
    /\ ops' = ops + 1
    /\ IF dirExists
       THEN /\ op' = [op EXCEPT ![t] = "load"]
            /\ err' = [err EXCEPT ![t] = "none"]
            /\ Goto(t, "lock")
            /\ UNCHANGED <<now, tries, rd>>
       ELSE Return(t, "ok")
    /\ UNCHANGED <<config, codec, out, closed, clock, file, lockIno, handle, held, ext, mu, store, faults, hist>>

\* save: os.OpenFile(j.filename, O_RDWR|O_CREATE)
SaveOpen(t) ==
    /\ pc[t] = "open" /\ op[t] = "save"
    /\ \/ /\ Fault
          /\ err' = [err EXCEPT ![t] = "ioerr"]
          /\ Goto(t, "release")
          /\ UNCHANGED file
       \/ /\ NoFault
          /\ file' = IF file.exists THEN file ELSE [exists |-> TRUE, data |-> <<>>]
          /\ Goto(t, "mu")
          /\ UNCHANGED err
    /\ UNCHANGED <<config, codec, out, closed, clock, lockIno, handle, held, ext, mu, store, op, now, tries,
                   rd, ops, hist>>

\* load: os.Open(j.filename); a file that does not exist is no error
LoadOpen(t) ==
    /\ pc[t] = "open" /\ op[t] = "load"
    /\ \/ /\ Fault
          /\ err' = [err EXCEPT ![t] = "ioerr"]
          /\ Goto(t, "release")
       \/ /\ NoFault
          /\ IF file.exists
             THEN Goto(t, "merge") /\ UNCHANGED err
             ELSE Goto(t, "release") /\ err' = [err EXCEPT ![t] = "ok"]
    /\ UNCHANGED <<config, codec, out, closed, clock, file, lockIno, handle, held, ext, mu, store, op, now,
                   tries, rd, ops, hist>>

\* save: j.mu.Lock()
SaveLockMu(t) ==
    /\ pc[t] = "mu" /\ mu[JarOf(t)] = NoThread
    /\ mu' = [mu EXCEPT ![JarOf(t)] = t]
    /\ Goto(t, "merge")
    /\ UNCHANGED <<config, codec, out, closed, clock, file, lockIno, handle, held, ext, store, op, now, tries,
                   rd, err, faults, ops, hist>>

\* (mutant) save rewrites the file without merging it first
SaveMergeSkipped(t) ==
    /\ pc[t] = "merge" /\ op[t] = "save"
    /\ store' = [store EXCEPT ![JarOf(t)] = deleteExpired(store[JarOf(t)], now[t])]
    /\ rd' = [rd EXCEPT ![t] = Read("eof", <<>>)]
    /\ Goto(t, "trunc")
    /\ UNCHANGED <<config, codec, out, closed, clock, file, lockIno, handle, held, ext, mu, op, now, tries,
                   err, faults, ops, hist>>

\* (mutant) save returns the error of mergeFrom, as load does
SaveMergeStrict(t) ==
    /\ pc[t] = "merge" /\ op[t] = "save"
    /\ LET r == mergeFrom(store[JarOf(t)], file.data)
       IN /\ rd' = [rd EXCEPT ![t] = r.rd]
          /\ IF r.err = "ok"
             THEN /\ store' = [store EXCEPT ![JarOf(t)] = deleteExpired(r.store, now[t])]
                  /\ Goto(t, "trunc")
                  /\ UNCHANGED err
             ELSE /\ err' = [err EXCEPT ![t] = r.err]
                  /\ Goto(t, "unmu")
                  /\ UNCHANGED store
    /\ UNCHANGED <<config, codec, out, closed, clock, file, lockIno, handle, held, ext, mu, op, now, tries,
                   faults, ops, hist>>

\* (mutant) save merges the file and does not purge the store
SaveMergeNoPurge(t) ==
    /\ pc[t] = "merge" /\ op[t] = "save"
    /\ LET r == mergeFrom(store[JarOf(t)], file.data)
       IN /\ store' = [store EXCEPT ![JarOf(t)] = r.store]
          /\ rd' = [rd EXCEPT ![t] = r.rd]
    /\ Goto(t, "trunc")
    /\ UNCHANGED <<config, codec, out, closed, clock, file, lockIno, handle, held, ext, mu, op, now, tries,
                   err, faults, ops, hist>>

\* save: mergeFrom, its error logged and dropped, then deleteExpired(now)
SaveMerge(t) ==
    /\ pc[t] = "merge" /\ op[t] = "save"
    /\ LET r == mergeFrom(store[JarOf(t)], file.data)
       IN /\ store' = [store EXCEPT ![JarOf(t)] = deleteExpired(r.store, now[t])]
          /\ rd' = [rd EXCEPT ![t] = r.rd]
    /\ Goto(t, "trunc")
    /\ UNCHANGED <<config, codec, out, closed, clock, file, lockIno, handle, held, ext, mu, op, now, tries,
                   err, faults, ops, hist>>

\* history: the file is between a truncation and the end of a rewrite (torn);
\* it holds what the last successful rewrite wrote (valid), by the process of
\* jar, from the store mem, under key; the last truncation removed such a
\* content (over)
Truncated == [hist EXCEPT !.torn = TRUE, !.valid = FALSE, !.over = hist.valid]

\* (mutant) save seeks to the start and leaves the old content in the file
SaveTruncateSkipped(t) ==
    /\ pc[t] = "trunc"
    /\ NoFault
    /\ hist' = Truncated
    /\ Goto(t, "write")
    /\ UNCHANGED <<config, codec, out, closed, clock, file, lockIno, handle, held, ext, mu, store, op,
                   now, tries, rd, ops, err>>

\* save: f.Truncate(0), then f.Seek(0, 0)
SaveTruncate(t) ==
    /\ pc[t] = "trunc"
    /\ \/ /\ Fault
          /\ err' = [err EXCEPT ![t] = "ioerr"]
          /\ Goto(t, "unmu")
          /\ \/ UNCHANGED <<file, hist>>
             \/ /\ file' = [file EXCEPT !.data = <<>>]
                /\ hist' = Truncated
       \/ /\ NoFault
          /\ file' = [file EXCEPT !.data = <<>>]
          /\ hist' = Truncated
          /\ Goto(t, "write")
          /\ UNCHANGED err
    /\ UNCHANGED <<config, codec, out, closed, clock, lockIno, handle, held, ext, mu, store, op, now, tries,
                   rd, ops>>

\* (mutant) allPersistentEntries encrypts the entries of the store in place
SaveWriteInPlace(t) ==
    /\ pc[t] = "write"
    /\ \E r \in Draws(store[JarOf(t)], key[JarOf(t)]) :
          LET a == allPersistentEntries(store[JarOf(t)], key[JarOf(t)], r)
              text == Encode(a.entries)
          IN IF ~a.ok
             THEN /\ err' = [err EXCEPT ![t] = "encrypt"]
                  /\ NoFault
                  /\ UNCHANGED <<file, hist, store>>
             ELSE /\ store' = [store EXCEPT ![JarOf(t)] =
                                  {e \in @ : ~e.Persistent} \cup SeqToSet(a.entries)]
                  /\ \/ /\ Fault
                        /\ \E n \in {0, 1, Len(text) - 1} :
                              file' = [file EXCEPT !.data = SubSeq(text, 1, n)]
                        /\ err' = [err EXCEPT ![t] = "ioerr"]
                        /\ UNCHANGED hist
                     \/ /\ NoFault
                        /\ file' = [file EXCEPT !.data = text]
                        /\ hist' = [torn |-> FALSE, valid |-> TRUE, over |-> FALSE,
                                    jar |-> JarOf(t), mem |-> store[JarOf(t)],
                                    key |-> key[JarOf(t)], rand |-> r]
                        /\ err' = [err EXCEPT ![t] = "ok"]
    /\ Goto(t, "unmu")
    /\ UNCHANGED <<config, codec, out, closed, clock, lockIno, handle, held, ext, mu, op, now,
                   tries, rd, ops>>

\* save: j.writeTo(f); an encryption error writes nothing, a failed write
\* leaves a prefix of the text
SaveWrite(t) ==
    /\ pc[t] = "write"
    /\ \E r \in Draws(store[JarOf(t)], key[JarOf(t)]) :
          LET a == allPersistentEntries(store[JarOf(t)], key[JarOf(t)], r)
              text == Encode(a.entries)
          IN IF ~a.ok
             THEN /\ err' = [err EXCEPT ![t] = "encrypt"]
                  /\ NoFault
                  /\ UNCHANGED <<file, hist>>
             ELSE \/ /\ Fault
                     /\ \E n \in {0, 1, Len(text) - 1} :
                           file' = [file EXCEPT !.data = SubSeq(text, 1, n)]
                     /\ err' = [err EXCEPT ![t] = "ioerr"]
                     /\ UNCHANGED hist
                  \/ /\ NoFault
                     /\ file' = [file EXCEPT !.data = text]
                     /\ hist' = [torn |-> FALSE, valid |-> TRUE, over |-> FALSE,
                                 jar |-> JarOf(t), mem |-> store[JarOf(t)],
                                 key |-> key[JarOf(t)], rand |-> r]
                     /\ err' = [err EXCEPT ![t] = "ok"]
    /\ Goto(t, "unmu")
    /\ UNCHANGED <<config, codec, out, closed, clock, lockIno, handle, held, ext, mu, store, op, now,
                   tries, rd, ops>>

\* (mutant) save returns with the mutex of the jar still locked
SaveUnlockMuNever(t) ==
    /\ pc[t] = "unmu"
    /\ Goto(t, "release")
    /\ UNCHANGED <<config, codec, out, closed, clock, file, lockIno, handle, held, ext, mu,
                   store, op, now, tries, rd, err, faults, ops, hist>>

\* save: the deferred j.mu.Unlock() and f.Close()
SaveUnlockMu(t) ==
    /\ pc[t] = "unmu"
    /\ mu' = [mu EXCEPT ![JarOf(t)] = NoThread]
    /\ Goto(t, "release")
    /\ UNCHANGED <<config, codec, out, closed, clock, file, lockIno, handle, held, ext, store, op, now, tries,
                   rd, err, faults, ops, hist>>

\* load: mergeFrom, its error returned; j.mu is not taken
LoadMerge(t) ==
    /\ pc[t] = "merge" /\ op[t] = "load"
    /\ LET r == mergeFrom(store[JarOf(t)], file.data)
       IN /\ store' = [store EXCEPT ![JarOf(t)] = r.store]
          /\ rd' = [rd EXCEPT ![t] = r.rd]
          /\ err' = [err EXCEPT ![t] = r.err]
    /\ Goto(t, "release")
    /\ UNCHANGED <<config, codec, out, closed, clock, file, lockIno, handle, held, ext, mu, op, now, tries,
                   faults, ops, hist>>

\* MarshalJSON: j.mu.Lock()
MarshalLock(t) ==
    /\ pc[t] = "idle" /\ ops < budget /\ mu[JarOf(t)] = NoThread
    /\ ops' = ops + 1
    /\ op' = [op EXCEPT ![t] = "marshal"]
    /\ mu' = [mu EXCEPT ![JarOf(t)] = t]
    /\ err' = [err EXCEPT ![t] = "none"]
    /\ Goto(t, "marshal")
    /\ UNCHANGED <<config, codec, out, closed, clock, file, lockIno, handle, held, ext, store, now, tries, rd,
                   faults, hist>>

\* MarshalJSON: allPersistentEntries, json.Marshal and the deferred
\* j.mu.Unlock(); the data is nil when the encryption fails
MarshalReturn(t) ==
    /\ pc[t] = "marshal"
    /\ mu' = [mu EXCEPT ![JarOf(t)] = NoThread]
    /\ \E r \in Draws(store[JarOf(t)], key[JarOf(t)]) :
          LET a == allPersistentEntries(store[JarOf(t)], key[JarOf(t)], r)
          IN IF a.ok
             THEN Return(t, "ok") /\ out' = [out EXCEPT ![t] = Marshal(a.entries)]
             ELSE Return(t, "encrypt") /\ out' = [out EXCEPT ![t] = <<>>]
    /\ UNCHANGED <<config, codec, closed, clock, file, lockIno, handle, held, ext, store,
                   faults, ops, hist>>

----------------------------------------------------------------------------
(* The specifications. *)

\* a call of the codec: encrypt of plaintext under key gave text (st "ok") or
\* an error; decrypt of text, intact or not, under dkey gave result with st
Call(step, plaintext, k, text, intact, dkey, st, result) ==
    [step |-> step, plaintext |-> plaintext, key |-> k, text |-> text,
     intact |-> intact, dkey |-> dkey, st |-> st, result |-> result]
\* no call of the codec
NoCall == Call("none", <<>>, NoKey, NoText, TRUE, NoKey, "none", <<>>)

\* the jar of the first process holds cookies; the jar of the second is fresh
\* or holds a newer session version of E1 and a cookie of its own
InitStores ==
    {[j \in Jars |-> IF j = "j1" THEN s1 ELSE s2] :
        s1 \in {{E1, E2, E3}}, s2 \in {{}, {E1s, E4}}}
InitKeys == {[j \in Jars |-> IF j = "j1" THEN k ELSE NoKey] : k \in {NoKey, GoodKey, BadKey}}
InitFiles ==
    {[exists |-> FALSE, data |-> <<>>],
     [exists |-> TRUE, data |-> <<Tok("junk")>>],
     [exists |-> TRUE, data |-> <<Tok("num"), Tok("nl")>>],
     [exists |-> TRUE, data |-> Encode(<<E1n, E3>>)]}

InitCommon ==
    /\ dirExists \in BOOLEAN
    /\ key \in InitKeys
    /\ clock = 0
    /\ file \in InitFiles
    /\ dirExists \/ ~file.exists
    /\ lockIno = 0
    /\ handle = [t \in Threads |-> 0]
    /\ held = [t \in Threads |-> FALSE]
    /\ ext = 0
    /\ mu = [j \in Jars |-> NoThread]
    /\ store \in InitStores
    /\ pc = [t \in Threads |-> "idle"]
    /\ op = [t \in Threads |-> "none"]
    /\ now = [t \in Threads |-> 0]
    /\ tries = [t \in Threads |-> 0]
    /\ rd = [t \in Threads |-> NotRead]
    /\ err = [t \in Threads |-> "none"]
    /\ faults = 0
    /\ ops = 0
    /\ hist = [torn |-> FALSE, valid |-> FALSE, over |-> FALSE,
               jar |-> "none", mem |-> {}, key |-> NoKey, rand |-> <<>>]
    /\ out = [t \in Threads |-> <<>>]
    /\ closed = [t \in Threads |-> "none"]
    /\ codec = NoCall

\* The platforms the two variants are built for: the lock on the file itself,
\* or the ".lock" artifact on a filesystem that refuses to remove an open file.
Init ==
    /\ InitCommon
    /\ separateArtifact \in BOOLEAN
    /\ removeOpenAllowed = FALSE
    /\ budget = MaxOps

Next ==
    \/ \E t \in Threads :
          \/ Save(t) \/ Load(t) \/ TryLock(t) \/ SaveOpen(t) \/ LoadOpen(t)
          \/ SaveLockMu(t) \/ SaveMerge(t) \/ SaveTruncate(t) \/ SaveWrite(t)
          \/ SaveUnlockMu(t) \/ LoadMerge(t) \/ Release(t) \/ Remove(t)
          \/ MarshalLock(t) \/ MarshalReturn(t)
    \/ ExtAcquire \/ ExtRelease

Spec == Init /\ [][Next]_vars

\* The process of the jar dies while its thread t is in writeTo, after the
\* truncation: a prefix of the text is in the file, every thread of the
\* process is gone, and the system closes their handles, which releases the
\* lock; the lock artifact stays where it is.
SaveCrash(t) ==
    /\ pc[t] = "write"
    /\ Fault
    /\ \E r \in Draws(store[JarOf(t)], key[JarOf(t)]) :
          LET a == allPersistentEntries(store[JarOf(t)], key[JarOf(t)], r)
              text == Encode(a.entries)
          IN IF ~a.ok THEN UNCHANGED file
             ELSE \E n \in {0, 1, Len(text) - 1} :
                     file' = [file EXCEPT !.data = SubSeq(text, 1, n)]
    /\ pc' = [u \in Threads |-> IF JarOf(u) = JarOf(t) THEN "dead" ELSE pc[u]]
    /\ handle' = [u \in Threads |-> IF JarOf(u) = JarOf(t) THEN 0 ELSE handle[u]]
    /\ held' = [u \in Threads |-> IF JarOf(u) = JarOf(t) THEN FALSE ELSE held[u]]
    /\ mu' = [mu EXCEPT ![JarOf(t)] = NoThread]
    /\ UNCHANGED <<config, codec, out, closed, clock, lockIno, ext, store, op, now, tries, rd, err,
                   ops, hist>>

CrashNext == Next \/ \E t \in Threads : SaveCrash(t)

CrashSpec == Init /\ [][CrashNext]_vars

\* The ".lock" variant on a filesystem that removes a file while another
\* handle holds it open, with one call more to start: jars without keys, the
\* second one fresh, the file absent or left by an earlier Save.
UnlinkInit ==
    /\ InitCommon
    /\ separateArtifact = TRUE
    /\ removeOpenAllowed = TRUE
    /\ budget = MaxOps + 1
    /\ dirExists
    /\ key = [j \in Jars |-> NoKey]
    /\ store["j2"] = {}
    /\ ~file.exists \/ file.data = Encode(<<E1n, E3>>)

UnlinkSpec == UnlinkInit /\ [][Next]_vars

----------------------------------------------------------------------------
(* The codec on its own: encrypt, then decrypt of its text or of a damaged one. *)

\* plaintexts of 0 to 3 bytes (each padding of the base64 text), and the keys
Plaintexts == {<<>>, <<120>>, <<0, 255>>, <<1, 2, 3>>}
Keys == {NoKey, BadKey, GoodKey, OtherKey, Key24, Key32}

\* encrypt(plaintext, key) is called
EncryptCall ==
    /\ codec.step = "none"
    /\ \E p \in Plaintexts, k \in Keys, n \in Nonces :
          LET r == encrypt(p, k, n)
          IN codec' = Call("encrypted", p, k, r.text, TRUE, NoKey,
                           IF r.ok THEN "ok" ELSE "error", <<>>)
    /\ UNCHANGED <<config, out, closed, clock, file, lockIno, handle, held, ext, mu, store, pc, op,
                   now, tries, rd, err, faults, ops, hist>>

\* the text is cut short, or one of its characters is replaced, before it is
\* given to decrypt
Damage ==
    /\ codec.step = "encrypted" /\ codec.st = "ok" /\ codec.intact
    /\ \E t \in {SubSeq(codec.text, 1, n) : n \in {0, 2, 3, 5, 7, 15, 19, Len(codec.text) - 4}}
               \cup {[codec.text EXCEPT ![i] = c] : i \in {1, 4, 20, Len(codec.text)},
                                                     c \in {0, NotB64}} :
          /\ t # codec.text
          /\ codec' = [codec EXCEPT !.text = t, !.intact = FALSE]
    /\ UNCHANGED <<config, out, closed, clock, file, lockIno, handle, held, ext, mu, store, pc, op,
                   now, tries, rd, err, faults, ops, hist>>

\* decrypt(text, dkey) is called
DecryptCall ==
    /\ codec.step = "encrypted" /\ codec.st = "ok"
    /\ \E k \in Keys :
          LET d == decrypt(codec.text, k)
          IN codec' = [codec EXCEPT !.step = "decrypted", !.dkey = k, !.st = d.st,
                                    !.result = d.plaintext]
    /\ UNCHANGED <<config, out, closed, clock, file, lockIno, handle, held, ext, mu, store, pc, op,
                   now, tries, rd, err, faults, ops, hist>>

\* the caller goes on after a returned value or error; a panic ends the program
CodecReturn ==
    /\ \/ codec.step = "decrypted" /\ codec.st # "panic"
       \/ codec.step = "encrypted" /\ codec.st = "error"
    /\ codec' = NoCall
    /\ UNCHANGED <<config, out, closed, clock, file, lockIno, handle, held, ext, mu, store, pc, op,
                   now, tries, rd, err, faults, ops, hist>>

CodecInit ==
    /\ Init
    /\ ~separateArtifact /\ ~dirExists
    /\ key = [j \in Jars |-> NoKey]
    /\ store["j2"] = {}

CodecNext == EncryptCall \/ Damage \/ DecryptCall \/ CodecReturn

CodecSpec == CodecInit /\ [][CodecNext]_vars

\* the steps of a call that has been entered: every thread that is inside a
\* call keeps running; nothing makes a thread start a call or the external
\* process give the lock back
Step(t) ==
    \/ TryLock(t) \/ SaveOpen(t) \/ LoadOpen(t) \/ SaveLockMu(t) \/ SaveMerge(t)
    \/ SaveTruncate(t) \/ SaveWrite(t) \/ SaveUnlockMu(t) \/ LoadMerge(t)
    \/ Release(t) \/ Remove(t) \/ MarshalReturn(t)

Fairness == \A t \in Threads : WF_vars(Step(t))

\* the initial states of the fair specification: the second jar is fresh, and the file and the key are such that every failure of
\* a call can happen
FairInit ==
    /\ Init
    /\ store["j2"] = {}
    /\ key["j1"] \in {NoKey, BadKey}
    /\ Decode(file.data).st \in {"eof", "syntax", "array"}

FairSpec == FairInit /\ [][Next]_vars /\ Fairness

----------------------------------------------------------------------------
(* The claims. *)

\* LockFile has returned a closer to t and t has not yet called its Close
Holding(t) == pc[t] \in {"open", "mu", "merge", "trunc", "write", "unmu", "release"}

\* the counter of TestLockFile: callers between acquisition and Close
concurrentCount == Cardinality({t \in Threads : Holding(t)}) + (IF ext # 0 THEN 1 ELSE 0)

\* the step of t that reads the file: mergeFrom in save or in load
ReadStep(t) == pc[t] = "merge" /\ pc'[t] # "merge"

\* the step of t that ends a successful rewrite of the file
WriteOK(t) == pc[t] = "write" /\ pc'[t] = "unmu" /\ err'[t] = "ok"

\* C1: at no moment do two callers hold an acquired, not yet closed lock: the
\* counter of holders never exceeds 1, and when every caller is done no lock
\* and no lock handle is left.
C1_MutualExclusion ==
    /\ concurrentCount <= 1
    /\ \A t \in Threads : Holding(t) => held[t] /\ ~LockBusy(t, handle[t])
    /\ (\A t \in Threads : pc[t] = "idle") =>
          \A t \in Threads : ~held[t] /\ handle[t] = 0

\* a caller holds the lock while another has already been refused it once
C1_Witness ==
    \E t, u \in Threads : Holding(t) /\ pc[u] = "lock" /\ tries[u] > 0


\* C2 as stated: when a Save of one process has rewritten the file and a Save
\* of the other process then rewrites it with success, the file holds an entry
\* for every identity that was Persistent and unexpired in the first store.
C2_NoLostUpdate ==
    [][\A t \in Threads :
          WriteOK(t) /\ hist.over /\ hist.jar # JarOf(t) =>
             \A e \in hist.mem :
                e.Persistent => e.id \in Ids(FileEntries(file'.data))]_vars

\* C2 as amended: a successful rewrite keeps an entry for every persistent
\* entry of the content it replaces, except an entry that is expired at this
\* Save's now and an entry whose identity this process's store holds as a
\* session entry updated at least as late; and it writes every persistent
\* entry of its own store.
C2_MergeThenRewrite ==
    [][\A t \in Threads :
          WriteOK(t) =>
             /\ hist.over =>
                   \A e \in hist.mem :
                      e.Persistent =>
                         \/ e.id \in Ids(FileEntries(file'.data))
                         \/ e.Expires <= now[t]
                         \/ \E f \in store[JarOf(t)] :
                               f.id = e.id /\ ~f.Persistent /\ f.Updated >= e.Updated
             /\ \A e \in store[JarOf(t)] :
                   e.Persistent => e.id \in Ids(FileEntries(file'.data))]_vars

\* a Save of the first process has rewritten a file that held the second
\* process's cookie E4, and the file still holds it beside its own E1
C2_Witness ==
    \E t \in Threads :
       /\ JarOf(t) = "j1" /\ pc[t] = "unmu" /\ err[t] = "ok"
       /\ E4 \in SeqToSet(rd[t].entries)
       /\ hist.valid /\ hist.jar = "j1"
       /\ {"a", "d"} \subseteq Ids(FileEntries(file.data))


\* C3 as stated: every read of the file under the lock sees a complete content,
\* never the empty or partly written state between a truncation and the end of
\* a rewrite.
C3_NoTornRead ==
    [][\A t \in Threads : ReadStep(t) => ~hist.torn]_vars

\* C3 as amended: while a Save is between its truncation and the end of its
\* rewrite no other thread reads the file, and no other thread is between the
\* acquisition of the lock and its release; so a read under the lock sees what
\* the last Save that ended left: a complete content, or, when that Save
\* failed after truncating, an empty file or a prefix of its text.
C3_NoReadDuringRewrite ==
    [][\A t \in Threads :
          ReadStep(t) =>
             /\ \A u \in Threads \ {t} : pc[u] # "write" /\ ~Holding(u)
             /\ hist.torn => \A u \in Threads : pc[u] # "write"]_vars

\* a Save is between truncation and rewrite while another caller, already
\* refused once, waits for the lock
C3_Witness ==
    \E t, u \in Threads :
       /\ pc[t] = "write" /\ hist.torn
       /\ pc[u] = "lock" /\ tries[u] > 0 /\ JarOf(u) # JarOf(t)


\* C4: every Save or Load that has acquired the file lock releases it, on
\* success and on every failure path; a thread that has returned holds no lock
\* and no lock handle, so the lock is free for the next caller.
C4_GuaranteedRelease ==
    /\ [](\A t \in Threads : pc[t] \in {"idle", "marshal"} => ~held[t] /\ handle[t] = 0)
    /\ \A t \in Threads : held[t] ~> ~held[t]

\* a Save that failed after acquisition (its encryption failed after the
\* truncation) still holds the lock, on its way to the release
C4_Witness ==
    \E t \in Threads : held[t] /\ pc[t] \in {"unmu", "release"} /\ err[t] = "encrypt"


\* C5: a caller never waits for the lock forever: while another holder keeps
\* the lock, LockFile gives up at the deadline and returns the timeout error
\* and no lock; it returns that error in no other case, and the error of a
\* failed lock attempt (the artifact cannot be opened) is another value.
C5_BoundedAcquisition ==
    /\ [](\A t \in Threads :
             pc[t] = "idle" /\ err[t] = "timeout" => ~held[t] /\ handle[t] = 0)
    /\ [][\A t \in Threads :
             /\ (pc[t] = "lock" /\ pc'[t] = "idle") =>
                   \/ /\ err'[t] = "timeout"
                      /\ dirExists /\ tries[t] = MaxTries
                      /\ handle[t] # 0 /\ LockBusy(t, handle[t])
                   \/ err'[t] = "ioerr" /\ ~dirExists
             /\ (pc[t] = "lock" /\ tries[t] = MaxTries /\ handle[t] # 0
                    /\ LockBusy(t, handle[t]) /\ <<pc[t], tries[t]>>' # <<pc[t], tries[t]>>) =>
                   pc'[t] = "idle" /\ err'[t] = "timeout"]_vars
    /\ \A t \in Threads : (pc[t] = "lock") ~> (pc[t] # "lock")

\* a call has returned the timeout error while the external process still
\* holds the lock
C5_Witness ==
    \E t \in Threads : pc[t] = "idle" /\ err[t] = "timeout" /\ ext # 0


\* C6: a Load into an empty jar of the file that a successful Save has written
\* succeeds and yields exactly the entries of the saved jar that are
\* Persistent, each with the fields it was serialised with (under a key: the
\* encrypted value in place of the value); the entries that are not
\* Persistent are absent.
C6_RoundTrip ==
    [][\A t \in Threads :
          (ReadStep(t) /\ op[t] = "load" /\ store[JarOf(t)] = {} /\ hist.valid) =>
             /\ err'[t] = "ok"
             /\ store'[JarOf(t)] = {Sealed(e, hist.key, hist.rand[e.id]) : e \in {f \in hist.mem : f.Persistent}}
             /\ \A e \in store'[JarOf(t)] :
                   e.Persistent /\ \E f \in hist.mem :
                      /\ f.id = e.id /\ f.Expires = e.Expires /\ f.Updated = e.Updated
                      /\ (hist.key = NoKey => f = e)]_vars

\* the first process has saved a jar holding E1 (persistent) and E2 (session),
\* and a Load of the second process has filled its empty jar from that file,
\* with E1 and without E2
C6_Witness ==
    \E t \in Threads :
       /\ JarOf(t) = "j2" /\ op[t] = "load" /\ pc[t] = "release" /\ err[t] = "ok"
       /\ hist.valid /\ hist.jar = "j1" /\ hist.key = NoKey
       /\ {E1, E2} \subseteq hist.mem
       /\ store["j2"] = {f \in hist.mem : f.Persistent}
       /\ E1 \in store["j2"] /\ E2 \notin store["j2"]


\* the content is not valid JSON, or valid JSON that is not an array of Entry
NotJSON(data) == Decode(data).st = "syntax"
NotEntries(data) == Decode(data).st \notin {"eof", "syntax"} /\ ~Unmarshal(Decode(data)).ok

\* the step of save that ends writeTo
WriteStep(t) == pc[t] = "write" /\ pc'[t] = "unmu"

\* the entries writeTo has to write for the store S under the key k
Persisted(S, k, r) == {Sealed(e, k, r[e.id]) : e \in {f \in S : f.Persistent}}

\* C7: over a file that is not valid JSON, or not an array of Entry, save
\* merges nothing into the store and goes on to the rewrite; it never returns
\* the decode error; unless an I/O fault or the encryption stops the rewrite it
\* returns success, and the file then holds exactly the persistent entries of
\* the store, all unexpired.
C7_CorruptionTolerance ==
    [][\A t \in Threads :
          /\ (ReadStep(t) /\ op[t] = "save" /\ (NotJSON(file.data) \/ NotEntries(file.data))) =>
                /\ store'[JarOf(t)] = deleteExpired(store[JarOf(t)], now[t])
                /\ rd'[t].st \in {"syntax", "discarded"}
                /\ pc'[t] = "trunc" /\ err'[t] = "none"
          /\ op'[t] = "save" => err'[t] # "decode"
          /\ (WriteStep(t) /\ rd[t].st \in {"syntax", "discarded"}) =>
                /\ (faults' = faults /\ KeyLen(key[JarOf(t)]) \in {0, 16, 24, 32})
                      => err'[t] = "ok"
                /\ err'[t] = "ok" =>
                      /\ FileEntries(file'.data) = Persisted(store[JarOf(t)], key[JarOf(t)], hist'.rand)
                      /\ file'.data = Encode(SortEntries(FileEntries(file'.data)))
                      /\ \A e \in store[JarOf(t)] : e.Expires > now[t]]_vars

\* a Save over a file that was not JSON has succeeded and the file holds the
\* persistent entry E1 of its store alone
C7_Witness ==
    \E t \in Threads :
       /\ op[t] = "save" /\ pc[t] = "unmu" /\ err[t] = "ok" /\ rd[t].st = "syntax"
       /\ now[t] = 1 /\ key[JarOf(t)] = NoKey
       /\ FileEntries(file.data) = {E1}


\* the step of load that finds no file at the path
MissingStep(t) ==
    /\ pc[t] = "open" /\ op[t] = "load" /\ pc'[t] = "release"
    /\ ~file.exists /\ faults' = faults

\* C8: Load over a missing or an empty file succeeds and merges nothing; over
\* content that is not JSON it returns the decode error; over JSON that is not
\* an array of Entry it succeeds and merges nothing; in these cases the store
\* is unchanged, and the store becomes merge(store, entries) only for a valid
\* array of Entry.
C8_LoadOutcome ==
    [][\A t \in Threads :
          /\ MissingStep(t) => err'[t] = "ok" /\ store' = store /\ rd'[t] = NotRead
          /\ (ReadStep(t) /\ op[t] = "load") =>
                LET v == Decode(file.data)
                    S == store[JarOf(t)]
                IN /\ pc'[t] = "release"
                   /\ v.st = "eof" => err'[t] = "ok" /\ store' = store /\ rd'[t].entries = <<>>
                   /\ NotJSON(file.data) => err'[t] = "decode" /\ store' = store
                   /\ NotEntries(file.data) =>
                         err'[t] = "ok" /\ store' = store /\ rd'[t].entries = <<>>
                   /\ rd'[t].st = "merged" <=>
                         v.st \notin {"eof", "syntax"} /\ Unmarshal(v).ok
                   /\ rd'[t].st = "merged" =>
                         /\ err'[t] = "ok"
                         /\ rd'[t].entries = Unmarshal(v).entries
                         /\ store' = [store EXCEPT ![JarOf(t)] = merge(S, Unmarshal(v).entries)]]_vars

\* a Load has met content that is not JSON and is about to return the error
C8_Witness ==
    \E t \in Threads :
       /\ op[t] = "load" /\ pc[t] = "release" /\ err[t] = "decode"
       /\ rd[t].st = "syntax" /\ NotJSON(file.data)


\* a Save by t has written the file without error and has not released the lock
SaveDone(t) == op[t] = "save" /\ pc[t] \in {"unmu", "release"} /\ err[t] = "ok"

\* C9: once a Save called with now has rewritten the file, neither the store
\* nor the file holds an entry with Expires <= now, be it an entry of the store
\* or one merged from the file by this Save; every entry of the file has
\* Expires > now.
C9_ExpiryPurge ==
    \A t \in Threads :
       SaveDone(t) =>
          /\ \A e \in store[JarOf(t)] : e.Expires > now[t]
          /\ \A e \in FileEntries(file.data) : e.Expires > now[t]
          /\ \A e \in SeqToSet(rd[t].entries) :
                e.Expires <= now[t] => e \notin store[JarOf(t)] \cup FileEntries(file.data)

\* a Save at time 1 has merged the entry E3, expired at 1, from the file into a
\* store that did not hold it, and has written a file with entries
C9_Witness ==
    \E t \in Threads :
       /\ SaveDone(t) /\ now[t] = 1 /\ JarOf(t) = "j2"
       /\ E3 \in SeqToSet(rd[t].entries)
       /\ E3 \notin store[JarOf(t)]
       /\ FileEntries(file.data) # {}


\* t is between the merge and the end of the rewrite of a Save, or at the
\* merge of a Load
InMergeRewrite(t) ==
    \/ op[t] = "save" /\ pc[t] \in {"merge", "trunc", "write"}
    \/ op[t] = "load" /\ pc[t] = "merge"

\* C10: every merge into the store, by Load or by Save, is a step taken while
\* the thread holds the mutex of its jar, and no two threads of one jar are
\* between merge and rewrite at the same time.
C10_InProcessSerialization ==
    [][\A t \in Threads :
          /\ ReadStep(t) => mu[JarOf(t)] = t
          /\ \A u \in Threads \ {t} :
                JarOf(u) = JarOf(t) => ~(InMergeRewrite(t) /\ InMergeRewrite(u))]_vars

\* a Load of jar j1 is at its merge while another thread of the process holds
\* the mutex of j1 inside MarshalJSON
C10_MergeBesideHolder ==
    \E t, u \in Threads :
       /\ t # u /\ JarOf(t) = JarOf(u)
       /\ op[t] = "load" /\ pc[t] = "merge"
       /\ pc[u] = "marshal" /\ mu[JarOf(u)] = u

\* what the mutex does give: the steps of Save from merge to unlock, and
\* MarshalJSON, are taken by the holder of the mutex of the jar
C10_SaveHoldsMutex ==
    \A t \in Threads :
       (\/ op[t] = "save" /\ pc[t] \in {"merge", "trunc", "write", "unmu"}
        \/ pc[t] = "marshal") => mu[JarOf(t)] = t


\* the text is one JSON array, a line end after it
IsArray(data) ==
    /\ Decode(data).st = "array"
    /\ data # <<>> /\ Head(data).k = "lb"
    /\ Len(data) >= 2 /\ data[Len(data) - 1].k = "rb"

\* C11: after every successful Save the file is one JSON array whose elements
\* are exactly the persistent entries the store holds after the purge, none of
\* them non-persistent, for every number of such entries, zero included (the
\* empty array).
C11_FileIsArray ==
    [][\A t \in Threads :
          WriteOK(t) =>
             /\ IsArray(file'.data)
             /\ FileEntries(file'.data) = Persisted(store[JarOf(t)], key[JarOf(t)], hist'.rand)
             /\ \A e \in FileEntries(file'.data) : e.Persistent]_vars

\* a Save of a store without persistent entries has succeeded and the file
\* holds the JSON value null
C11_NullFile ==
    \E t \in Threads :
       /\ SaveDone(t)
       /\ {e \in store[JarOf(t)] : e.Persistent} = {}
       /\ file.data = <<Tok("null"), Tok("nl")>>
       /\ ~IsArray(file.data)

\* for one entry or more the file is the array of the persistent entries
C11_ArrayWhenNonEmpty ==
    [][\A t \in Threads :
          (WriteOK(t) /\ {e \in store[JarOf(t)] : e.Persistent} # {}) =>
             /\ IsArray(file'.data)
             /\ FileEntries(file'.data) = Persisted(store[JarOf(t)], key[JarOf(t)], hist'.rand)]_vars


\* the step of MarshalJSON that returns
MarshalStep(t) == pc[t] = "marshal" /\ pc'[t] = "idle"

\* every entry of F is a persistent entry of S with the value cleared and, as
\* encrypted value, a text encrypt gives for the value under k, which decrypt
\* opens to that value; every persistent entry of S has one in F
SealedFrom(F, S, k) ==
    /\ \A f \in F :
          /\ f.Value = "" /\ f.EncryptedValue # NoText
          /\ \E e \in S :
                /\ e.Persistent /\ f = [e EXCEPT !.Value = "", !.EncryptedValue = f.EncryptedValue]
                /\ \E n \in Nonces : f.EncryptedValue = encrypt(Bytes(e.Value), k, n).text
                /\ decrypt(f.EncryptedValue, k) = [st |-> "ok", plaintext |-> Bytes(e.Value)]
    /\ \A e \in S : e.Persistent => \E f \in F : f.id = e.id

\* C12: under a non-empty key every entry that Save writes or MarshalJSON
\* returns has an empty Value and an EncryptedValue that is encrypt of the
\* entry's Value under the key; none carries a Value and an EncryptedValue
\* together, and no entry with a Value is written to the file, in a complete
\* or in a partial write.
C12_EncryptedEntries ==
    [][\A t \in Threads :
          LET k == key[JarOf(t)]
              S == store[JarOf(t)]
          IN KeyLen(k) > 0 =>
                /\ WriteOK(t) => SealedFrom(FileEntries(file'.data), S, k)
                /\ WriteStep(t) =>
                      \A i \in 1..Len(file'.data) :
                         file'.data[i].k = "obj" =>
                            /\ file'.data[i].e.Value = ""
                            /\ file'.data[i].e.EncryptedValue # NoText
                /\ (MarshalStep(t) /\ err'[t] = "ok") =>
                      SealedFrom(FileEntries(out'[t]), S, k)
                /\ (MarshalStep(t) /\ err'[t] # "ok") => out'[t] = <<>>]_vars

\* a Save under the 16-byte key has written the persistent entries E1 and E3
\* of its store, values cleared, and a MarshalJSON under the key has returned
\* entries
C12_Witness ==
    \E t, u \in Threads :
       /\ SaveDone(t) /\ key[JarOf(t)] = GoodKey
       /\ {E1, E3} \subseteq store[JarOf(t)]
       /\ {f.id : f \in FileEntries(file.data)} = {"a", "c"}
       /\ \A f \in FileEntries(file.data) : f.Value = "" /\ f.EncryptedValue # NoText
       /\ JarOf(u) = JarOf(t) /\ FileEntries(out[u]) # {}


\* C13: encrypt succeeds for every plaintext, the empty one included, under
\* every key of 16, 24 or 32 bytes, and decrypt of the text it returned, under
\* the same key, returns the plaintext and no error.
C13_CodecRoundTrip ==
    /\ (codec.step # "none" /\ KeyLen(codec.key) \in {16, 24, 32} /\ codec.intact) =>
          /\ codec.step = "encrypted" => codec.st = "ok"
          /\ Len(codec.text) > 3 /\ SubSeq(codec.text, 1, 3) = V01
    /\ (codec.step = "decrypted" /\ codec.intact /\ codec.dkey = codec.key) =>
          /\ codec.st = "ok"
          /\ codec.result = codec.plaintext

\* the empty plaintext has come back from decrypt under the 32-byte key
C13_Witness ==
    /\ codec.step = "decrypted" /\ codec.intact /\ codec.dkey = codec.key
    /\ codec.key = Key32 /\ codec.plaintext = <<>> /\ codec.st = "ok"
    /\ codec.result = <<>>


\* the step that is a whole call of load: a call starts (ops) and no thread is
\* inside a call it was not in before, nor has the external process moved
LoadAtOnce == pc' = pc /\ ops' = ops + 1 /\ ext' = ext

\* C14: without the parent directory of the path, Load returns success in one
\* step: no thread is ever inside load (none reaches LockFile), no file and no
\* lock artifact is created, no handle is opened, and the store is unchanged.
C14_LoadWithoutDirectory ==
    [][~dirExists =>
          /\ \A t \in Threads : op'[t] # "load"
          /\ LoadAtOnce =>
                /\ \E t \in Threads :
                      /\ err'[t] = "ok"
                      /\ \A u \in Threads \ {t} : err'[u] = err[u]
                /\ store' = store
                /\ file' = file /\ ~file'.exists
                /\ lockIno' = lockIno /\ lockIno' = 0
                /\ handle' = handle /\ held' = held /\ tries' = tries
                /\ mu' = mu]_vars

\* a Load has returned success where the parent directory does not exist
C14_Witness ==
    /\ ~dirExists /\ ~file.exists /\ lockIno = 0
    /\ \E t \in Threads :
          /\ pc[t] = "idle" /\ err[t] = "ok" /\ out[t] = <<>> /\ handle[t] = 0
          /\ store[JarOf(t)] # {}


\* the data is a prefix of a text writeTo can write for the store of t
PrefixOfNew(data, t) ==
    \E r \in Draws(store[JarOf(t)], key[JarOf(t)]) :
       LET text == Encode(allPersistentEntries(store[JarOf(t)], key[JarOf(t)], r).entries)
       IN Len(data) <= Len(text) /\ data = SubSeq(text, 1, Len(data))

\* C15: Save empties the file before it writes: the file is empty whenever a
\* thread is at writeTo, and when the call leaves writeTo by its end, by a
\* write error, by an encryption error or by the death of the process, the
\* file is empty or a prefix of the new text; a failed seek leaves it empty.
C15_TruncateBeforeRewrite ==
    [][\A t \in Threads :
          /\ (pc[t] = "trunc" /\ pc'[t] # "trunc") =>
                \/ file'.data = <<>>
                \/ file' = file /\ err'[t] = "ioerr" /\ hist' = hist
          /\ pc'[t] = "write" => file'.data = <<>> /\ file'.exists
          /\ (pc[t] = "write" /\ pc'[t] # "write") =>
                /\ PrefixOfNew(file'.data, t)
                /\ err'[t] = "encrypt" => file'.data = <<>>
                /\ (pc'[t] = "dead" /\ KeyLen(key[JarOf(t)]) \notin {0, 16, 24, 32}) =>
                      file'.data = <<>>]_vars

\* a process has died in writeTo over a file that held a valid content before
\* the truncation, and the file holds the first token of the new text
C15_Witness ==
    \E t \in Threads :
       /\ pc[t] = "dead" /\ op[t] = "save"
       /\ hist.torn /\ hist.over
       /\ file.data = <<Tok("lb")>>


\* C16: in the ".lock" variant Close closes the handle first, which releases
\* the lock, and attempts the removal of the artifact only afterwards; whether
\* the removal succeeds or fails, Close returns what closing the handle
\* returned, the call returns its own result, and the lock stays released.
C16_CloseThenRemove ==
    [][separateArtifact =>
          \A t \in Threads :
             /\ pc[t] = "release" =>
                   /\ pc'[t] \in {"release", "remove"}
                   /\ pc'[t] = "remove" =>
                         /\ ~held'[t] /\ handle'[t] = 0 /\ closed'[t] = "ok"
                         /\ lockIno' = lockIno
             /\ lockIno' # lockIno /\ lockIno' = 0 => \E u \in Threads : pc[u] = "remove"
             /\ pc[t] = "remove" => ~held[t] /\ handle[t] = 0
             /\ (pc[t] = "remove" /\ pc'[t] # "remove") =>
                   /\ pc'[t] = "idle" /\ err'[t] = err[t]
                   /\ closed'[t] = closed[t] /\ closed'[t] = "ok"
                   /\ ~held'[t] /\ handle'[t] = 0
                   /\ lockIno' = IF RemoveFails(t) THEN lockIno ELSE 0]_vars

\* a Close has returned after a removal that failed, the artifact being open
\* in another thread: the artifact is still there, the lock is not held by the
\* thread, and Close has returned the result of closing the handle
C16_Witness ==
    /\ separateArtifact /\ lockIno # 0
    /\ \E t, u \in Threads :
          /\ t # u /\ pc[t] = "idle" /\ closed[t] = "ok" /\ ~held[t] /\ handle[t] = 0
          /\ err[t] = "ok"
          /\ handle[u] = lockIno /\ pc[u] = "lock" /\ tries[u] > 0


\* the inodes on which a lock is held, by a thread or by the external process
HeldInodes == {handle[t] : t \in {u \in Threads : held[u]}} \cup (IF ext # 0 THEN {ext} ELSE {})

\* C17: in the ".lock" variant, on a filesystem that removes a file another
\* handle holds open, the removal of a releasing caller, a step of its own
\* after the close, unlinks the artifact even when another caller has opened
\* and locked it in between; two callers then hold a lock at once, each on an
\* inode of its own, at most one of them the artifact linked at the path.
C17_RemovalRace ==
    [][/\ \A t \in Threads :
             (pc[t] = "remove" /\ pc'[t] # "remove") =>
                /\ ~held[t] /\ handle[t] = 0
                /\ lockIno' = 0
                /\ held' = held /\ handle' = handle /\ ext' = ext
       /\ concurrentCount' <= Cardinality(HeldInodes')
       /\ concurrentCount' >= 2 =>
             /\ separateArtifact /\ removeOpenAllowed
             /\ Cardinality(HeldInodes' \ {lockIno'}) >= concurrentCount' - 1]_vars

\* A has closed and removed; B, which locked the artifact between A's close and
\* A's removal, holds the lock on the unlinked inode; C has created a fresh
\* artifact and holds the lock on it at the same time
C17_Witness ==
    \E a, b, c \in Threads :
       /\ a # b /\ b # c /\ a # c
       /\ pc[a] = "idle" /\ closed[a] = "ok"
       /\ Holding(b) /\ held[b] /\ handle[b] # lockIno
       /\ Holding(c) /\ held[c] /\ handle[c] = lockIno
       /\ concurrentCount = 2


\* the text is "v01" followed by valid base64 of fewer bytes than the nonce
ShortPayload(text) ==
    /\ Len(text) >= 3 /\ SubSeq(text, 1, 3) = V01
    /\ B64Decode(SubSeq(text, 4, Len(text))).ok
    /\ Len(B64Decode(SubSeq(text, 4, Len(text))).bytes) < NonceSize

\* C18: decrypt returns a plaintext or an error for every text and key and
\* never aborts the program; for "v01" followed by a payload of fewer bytes
\* than the nonce, "v01" alone included, under a valid key it returns an error.
C18_DecryptTotal ==
    codec.step = "decrypted" =>
       /\ codec.st \in {"ok", "error"}
       /\ (ShortPayload(codec.text) /\ KeyLen(codec.dkey) \in {16, 24, 32}) =>
             codec.st = "error"

\* decrypt of the text "v01" under the 16-byte key has aborted the program
C18_Panic ==
    /\ codec.step = "decrypted" /\ codec.text = V01 /\ codec.dkey = GoodKey
    /\ codec.st = "panic"

\* apart from the short payloads decrypt is total, and it returns a plaintext
\* only for the intact text under the key of the encryption
C18_TotalOnLongPayloads ==
    codec.step = "decrypted" =>
       /\ codec.st = "panic" <=>
             (ShortPayload(codec.text) /\ KeyLen(codec.dkey) \in {16, 24, 32})
       /\ codec.st = "ok" => codec.intact /\ codec.dkey = codec.key


\* C19: the mutex of a jar is held by a Save only inside its file lock (taken
\* after it, given back before it) or by a MarshalJSON, which takes no file
\* lock; no thread that is at LockFile holds a mutex; and every call that has
\* started returns.
C19_LockOrder ==
    /\ [](\A t \in Threads :
             /\ mu[JarOf(t)] = t =>
                   \/ op[t] = "save" /\ held[t] /\ pc[t] \in {"merge", "trunc", "write", "unmu"}
                   \/ op[t] = "marshal" /\ pc[t] = "marshal" /\ ~held[t] /\ handle[t] = 0
             /\ pc[t] \in {"lock", "open", "mu", "release", "remove"} => mu[JarOf(t)] # t
             /\ op[t] = "load" => mu[JarOf(t)] # t)
    /\ \A t \in Threads : (pc[t] # "idle") ~> (pc[t] = "idle")

\* a Save that holds the file lock waits for the mutex of its jar, which a
\* MarshalJSON of another thread holds
C19_Witness ==
    \E t, u \in Threads :
       /\ t # u /\ JarOf(t) = JarOf(u)
       /\ pc[t] = "mu" /\ held[t] /\ mu[JarOf(t)] = u /\ pc[u] = "marshal"


\* C20: the step of Save that writes the file and the step of MarshalJSON that
\* builds its data, each of which calls allPersistentEntries, leave the store
\* of every jar as it was: every entry keeps its Value and its EncryptedValue,
\* also under an encryption key.
C20_StoreUnaltered ==
    [][\A t \in Threads : WriteStep(t) \/ MarshalStep(t) => store' = store]_vars

\* a Save under a 16-byte key has merged a file that held the cookie "a"
\* encrypted, as an earlier Save wrote it, and has written the file again, and
\* the store still holds the cookie with its plaintext value and no encrypted one
C20_Witness ==
    \E t \in Threads :
       /\ op[t] = "save" /\ pc[t] = "unmu" /\ err[t] = "ok"
       /\ key[JarOf(t)] = GoodKey
       /\ rd[t].st = "merged"
       /\ \E e \in SeqToSet(rd[t].entries) :
             e.id = "a" /\ e.Value = "" /\ e.EncryptedValue # NoText
       /\ \E e \in FileEntries(file.data) :
             e.id = "a" /\ e.Value = "" /\ e.EncryptedValue # NoText
       /\ E1 \in store[JarOf(t)]


====
